---- MODULE Spec2Model ----
(***************************************************************************)
(* Backtesting engine of src/backtest/packages: BacktestEngine.run() over  *)
(* a list of Signals, the Position/Trade model, the cost adjustments and   *)
(* compute_kpis.                                                           *)
(*                                                                         *)
(* Python floats are modelled as exact rationals [n, d] in lowest terms    *)
(* with d > 0, so the arithmetic identities checked here are those of the  *)
(* formulas the code evaluates, free of binary rounding.                   *)
(***************************************************************************)
EXTENDS Integers, Sequences, FiniteSets, TLC

(*************************** bounds of the model ***************************)
\* longest signal list handed to the engine
MaxSignals == 3
\* timestamps are 1..MaxTime
MaxTime == 2
\* signal prices are 1..MaxPrice
MaxPrice == 2
MaxSignalsAnyPrice == 2

Assets == {"X", "Y"}
Sides == {"BUY", "SELL", "CLOSE"}
Modes == {"compound", "fixed"}

(****************************** exact numbers ******************************)
Abs(x) == IF x < 0 THEN -x ELSE x

RECURSIVE Gcd(_, _)
Gcd(a, b) == IF b = 0 THEN a ELSE Gcd(b, a % b)

\* the rational n/d (d # 0) in lowest terms with a positive denominator
Rat(n, d) ==
    LET g == Gcd(Abs(n), Abs(d))
        s == IF d < 0 THEN -1 ELSE 1
    IN  [n |-> s * (n \div g), d |-> s * (d \div g)]

Num(k) == [n |-> k, d |-> 1]
Zero == Num(0)
One == Num(1)
Hundred == Num(100)

Add(a, b) == Rat(a.n * b.d + b.n * a.d, a.d * b.d)
Sub(a, b) == Rat(a.n * b.d - b.n * a.d, a.d * b.d)
Mul(a, b) == Rat(a.n * b.n, a.d * b.d)
\* a / b for b # 0 (the callers test b first: Python raises ZeroDivisionError)
Div(a, b) == Rat(a.n * b.d, a.d * b.n)
Less(a, b) == a.n * b.d < b.n * a.d
Leq(a, b) == a.n * b.d <= b.n * a.d
Min(a, b) == IF Leq(a, b) THEN a ELSE b
Max(a, b) == IF Leq(a, b) THEN b ELSE a

(********************************* config **********************************)
\* slippage and fee rates the configurations are drawn from
Rates == {Zero, Rat(1, 4)}

\* BacktestConfig: the fields and the values a run may be given
BacktestConfig ==
    [slippage : Rates, fee : Rates, stop_loss_pct : {Zero},
     take_profit_pct : {Zero}, allow_short : {FALSE}, mode : Modes]

\* initial_capital: float = 1000.0
initial_capital_default == 1000

(********************************* models **********************************)
Signal ==
    [timestamp : 1..MaxTime, side : Sides, price : {Num(p) : p \in 1..MaxPrice},
     asset : Assets]

\* Optional[Position]: None is the empty sequence, a Position p is <<p>>
None == <<>>
Some(p) == <<p>>
IsSome(o) == o # None
Get(o) == o[1]

\* Position(side, entry_price, quantity, entry_time)
Position(side, entry_price, quantity, entry_time) ==
    [side |-> side, entry_price |-> entry_price, quantity |-> quantity,
     entry_time |-> entry_time]

\* Position.market_value
market_value(position, market_price) == Mul(position.quantity, market_price)

\* Trade.from_position; the invalid-side branch raises ValueError
from_position_raises(position) == position.side \notin {"BUY", "SELL"}

\* mutant: the pnl of a short Position is computed as that of a long one
from_position_long_pnl(position, exit_price, exit_time) ==
    LET quantity == position.quantity
        entry_price == position.entry_price
        pnl == Mul(Sub(exit_price, entry_price), quantity)
        entry_value == Mul(entry_price, quantity)
    IN  [entry_time |-> position.entry_time, exit_time |-> exit_time,
         side |-> position.side, entry_price |-> entry_price,
         exit_price |-> exit_price, quantity |-> quantity, pnl |-> pnl,
         return_pct |-> IF entry_value # Zero
                        THEN Mul(Div(pnl, entry_value), Hundred) ELSE Zero,
         exit_value |-> Mul(exit_price, quantity)]

from_position(position, exit_price, exit_time) ==
    LET quantity == position.quantity
        entry_price == position.entry_price
        side == position.side
        pnl == IF side = "BUY"
               THEN Mul(Sub(exit_price, entry_price), quantity)
               ELSE Mul(Sub(entry_price, exit_price), quantity)
        entry_value == Mul(entry_price, quantity)
        exit_value == Mul(exit_price, quantity)
        return_pct == IF entry_value # Zero
                      THEN Mul(Div(pnl, entry_value), Hundred)
                      ELSE Zero
    IN  [entry_time |-> position.entry_time, exit_time |-> exit_time,
         side |-> side, entry_price |-> entry_price, exit_price |-> exit_price,
         quantity |-> quantity, pnl |-> pnl, return_pct |-> return_pct,
         exit_value |-> exit_value]

(********************************** utils **********************************)
\* mutant: the exit pays the SELL slippage too
apply_slippage_on_exit(price, slippage, side) ==
    IF side = "BUY" THEN Mul(price, Add(One, slippage))
    ELSE Mul(price, Sub(One, slippage))

apply_slippage(price, slippage, side) ==
    IF side = "BUY" THEN Mul(price, Add(One, slippage))
    ELSE IF side = "SELL" THEN Mul(price, Sub(One, slippage))
    ELSE price

\* mutant: the fee is added to the price of a SELL too
apply_fees_added_on_sell(price, fee, side) ==
    IF side \in {"BUY", "SELL"} THEN Mul(price, Add(One, fee)) ELSE price

\* mutant: the exit pays the SELL fee
apply_fees_on_exit(price, fee, side) ==
    IF side = "BUY" THEN Mul(price, Add(One, fee))
    ELSE Mul(price, Sub(One, fee))

apply_fees(price, fee, side) ==
    IF side = "BUY" THEN Mul(price, Add(One, fee))
    ELSE IF side = "SELL" THEN Mul(price, Sub(One, fee))
    ELSE price

(********************************* engine **********************************)
\* mutant: a signal is put before the signals of its timestamp
RECURSIVE insert_before_ties(_, _)
insert_before_ties(sorted_seq, s) ==
    IF sorted_seq = <<>> THEN <<s>>
    ELSE IF sorted_seq[Len(sorted_seq)].timestamp < s.timestamp
         THEN Append(sorted_seq, s)
         ELSE Append(insert_before_ties(SubSeq(sorted_seq, 1, Len(sorted_seq) - 1), s),
                     sorted_seq[Len(sorted_seq)])


\* sorted(signals, key=lambda s: s.timestamp): stable, ties keep input order
RECURSIVE insert_by_timestamp(_, _)
insert_by_timestamp(sorted_seq, s) ==
    IF sorted_seq = <<>> THEN <<s>>
    ELSE IF sorted_seq[Len(sorted_seq)].timestamp <= s.timestamp
         THEN Append(sorted_seq, s)
         ELSE Append(insert_by_timestamp(SubSeq(sorted_seq, 1, Len(sorted_seq) - 1), s),
                     sorted_seq[Len(sorted_seq)])

RECURSIVE sorted(_)
sorted(seq) ==
    IF seq = <<>> THEN <<>>
    ELSE insert_by_timestamp(sorted(SubSeq(seq, 1, Len(seq) - 1)), seq[Len(seq)])

SeqToSet(seq) == {seq[j] : j \in DOMAIN seq}

\* BacktestEngine.__init__: the instance as a record.  positions is the
\* defaultdict(lambda: None): its value on every asset, with positions_keys
\* the keys it holds, in insertion order.  asset_balances is the
\* defaultdict(float).
BacktestEngine(input_signals, config, initial_capital) ==
    [signals |-> sorted(input_signals),
     config |-> config,
     initial_capital |-> initial_capital,
     trades |-> <<>>,
     equity_curve |-> <<>>,
     positions |-> [a \in Assets |-> None],
     positions_keys |-> <<>>,
     asset_balances |-> [a \in Assets |-> Zero],
     cash_usdc |-> initial_capital]

\* mutant: a read of self.positions[asset] inserts no key
touch_inserts_nothing(self, asset) == self

\* a read self.positions[asset] of the defaultdict inserts a missing key
touch(self, asset) ==
    IF asset \in SeqToSet(self.positions_keys) THEN self
    ELSE [self EXCEPT !.positions_keys = Append(@, asset)]

\* mutant: the signals are counted, not their distinct assets
_signal_count(self) == Len(self.signals)

_active_asset_count(self) == Cardinality({s.asset : s \in SeqToSet(self.signals)})

entry_price_of(self, signal) ==
    apply_fees(apply_slippage(signal.price, self.config.slippage, signal.side),
               self.config.fee, signal.side)

\* mutant: an open takes all the cash
alloc_all_cash(self) == self.cash_usdc

\* mutant: fixed mode does not cap the allocation
alloc_cash_uncapped(self) == Div(self.cash_usdc, Num(_active_asset_count(self)))

\* mutant: an open takes initial_capital / n, whatever cash is left
alloc_initial_share(self) == Div(self.initial_capital, Num(_active_asset_count(self)))

\* the cash an open takes: cash / n, capped in fixed mode
alloc_cash_of(self) ==
    LET n == Num(_active_asset_count(self))
        alloc_cash == Div(self.cash_usdc, n)
    IN  IF self.config.mode = "fixed"
        THEN Min(alloc_cash, Div(self.initial_capital, n))
        ELSE alloc_cash

\* quantity = alloc_cash / entry_price raises ZeroDivisionError
_open_position_raises(self, signal) ==
    /\ ~IsSome(self.positions[signal.asset])
    /\ entry_price_of(self, signal) = Zero

\* mutant: the balance of a short Position is stored unsigned
open_new_position_unsigned(self, signal) ==
    LET quantity == Div(alloc_cash_of(self), entry_price_of(self, signal))
    IN  [self EXCEPT
           !.positions[signal.asset] =
               Some(Position(signal.side, entry_price_of(self, signal), quantity,
                             signal.timestamp)),
           !.asset_balances[signal.asset] = quantity,
           !.cash_usdc = Sub(@, alloc_cash_of(self))]

\* the body of _open_position past its guard, on the instance after the read
\* of self.positions[asset]
open_new_position(self, signal) ==
    LET asset == signal.asset
        entry_price == entry_price_of(self, signal)
        alloc_cash == alloc_cash_of(self)
        quantity == Div(alloc_cash, entry_price)
    IN  [self EXCEPT
           !.positions[asset] =
               Some(Position(signal.side, entry_price, quantity, signal.timestamp)),
           !.asset_balances[asset] =
               IF signal.side = "BUY" THEN quantity ELSE Sub(Zero, quantity),
           !.cash_usdc = Sub(@, alloc_cash)]

\* mutant: no guard against an asset that has a Position
_open_position_unguarded(self, signal) ==
    IF entry_price_of(self, signal) = Zero THEN touch(self, signal.asset)
    ELSE open_new_position(touch(self, signal.asset), signal)

\* mutant: the guard looks at the signed balance, not at the Position
_open_position_guarded_by_balance(self, signal) ==
    IF Less(Zero, self.asset_balances[signal.asset]) THEN touch(self, signal.asset)
    ELSE IF entry_price_of(self, signal) = Zero THEN touch(self, signal.asset)
    ELSE open_new_position(touch(self, signal.asset), signal)

\* mutant: a SELL is refused unless allow_short is set
_open_position_long_only(self, signal) ==
    IF IsSome(self.positions[signal.asset]) THEN touch(self, signal.asset)
    ELSE IF signal.side = "SELL" /\ ~self.config.allow_short
         THEN touch(self, signal.asset)
    ELSE IF entry_price_of(self, signal) = Zero THEN touch(self, signal.asset)
    ELSE open_new_position(touch(self, signal.asset), signal)

_open_position(self, signal) ==
    IF IsSome(self.positions[signal.asset]) THEN touch(self, signal.asset)
    ELSE IF _open_position_raises(self, signal) THEN touch(self, signal.asset)
    ELSE open_new_position(touch(self, signal.asset), signal)

\* mutant: a close of an asset without a Position raises
_close_position_raises_on_flat(self, signal) ==
    \/ ~IsSome(self.positions[signal.asset])
    \/ from_position_raises(Get(self.positions[signal.asset]))

\* Trade.from_position raises ValueError on a Position of another side
_close_position_raises(self, signal) ==
    /\ IsSome(self.positions[signal.asset])
    /\ from_position_raises(Get(self.positions[signal.asset]))

\* mutant: the closed Position stays in the table
close_keeps_position(self, signal) ==
    LET asset == signal.asset
        exit_price ==
            apply_fees(apply_slippage(signal.price, self.config.slippage, signal.side),
                       self.config.fee, signal.side)
        trade == from_position(Get(self.positions[asset]), exit_price, signal.timestamp)
    IN  [self EXCEPT
           !.trades = Append(@, trade),
           !.cash_usdc = Add(@, trade.exit_value),
           !.asset_balances[asset] = Zero]

\* mutant: a close credits the entry value plus the pnl
close_credits_entry_value_plus_pnl(self, signal) ==
    LET asset == signal.asset
        exit_price ==
            apply_fees(apply_slippage(signal.price, self.config.slippage, signal.side),
                       self.config.fee, signal.side)
        trade == from_position(Get(self.positions[asset]), exit_price, signal.timestamp)
    IN  [self EXCEPT
           !.trades = Append(@, trade),
           !.cash_usdc = Add(@, Add(Mul(trade.entry_price, trade.quantity), trade.pnl)),
           !.asset_balances[asset] = Zero,
           !.positions[asset] = None]

\* the body of _close_position past its guard
close_open_position(self, signal) ==
    LET asset == signal.asset
        exit_price ==
            apply_fees(apply_slippage(signal.price, self.config.slippage, signal.side),
                       self.config.fee, signal.side)
        trade == from_position(Get(self.positions[asset]), exit_price, signal.timestamp)
    IN  [self EXCEPT
           !.trades = Append(@, trade),
           !.cash_usdc = Add(@, trade.exit_value),
           !.asset_balances[asset] = Zero,
           !.positions[asset] = None]

_close_position(self, signal) ==
    IF ~IsSome(self.positions[signal.asset]) THEN touch(self, signal.asset)
    ELSE IF _close_position_raises(self, signal) THEN touch(self, signal.asset)
    ELSE close_open_position(touch(self, signal.asset), signal)

\* keys of a snapshot dict: "cash_usdc", "equity_usdc", f"{asset}_balance",
\* f"{asset}_price", f"{asset}_value"
balance_key(asset) == asset \o "_balance"
price_key(asset) == asset \o "_price"
value_key(asset) == asset \o "_value"

\* mutant: an open Position is always valued at its entry price
latest_price_is_entry_price(self, asset, timestamp, default) == default

\* next((s.price for s in reversed(self.signals)
\*       if s.asset == asset and s.timestamp <= timestamp), default)
latest_price_of(self, asset, timestamp, default) ==
    LET hits == {j \in DOMAIN self.signals :
                    /\ self.signals[j].asset = asset
                    /\ self.signals[j].timestamp <= timestamp}
    IN  IF hits = {} THEN default
        ELSE self.signals[CHOOSE j \in hits : \A h \in hits : h <= j].price

\* the snapshot dict _update_equity builds, as a function of its keys
snapshot_of(self, timestamp) ==
    LET keys == SeqToSet(self.positions_keys)
        open == {a \in keys : IsSome(self.positions[a])}
        latest_price(a) ==
            latest_price_of(self, a, timestamp, Get(self.positions[a]).entry_price)
        value(a) == market_value(Get(self.positions[a]), latest_price(a))
        RECURSIVE total(_)
        total(j) == IF j = 0 THEN self.cash_usdc
                    ELSE IF self.positions_keys[j] \in open
                         THEN Add(total(j - 1), value(self.positions_keys[j]))
                         ELSE total(j - 1)
        dom == {"cash_usdc", "equity_usdc"}
                 \cup {balance_key(a) : a \in keys}
                 \cup {value_key(a) : a \in keys}
                 \cup {price_key(a) : a \in open}
    IN  [key \in dom |->
            IF key = "cash_usdc" THEN self.cash_usdc
            ELSE IF key = "equity_usdc" THEN total(Len(self.positions_keys))
            ELSE LET a == CHOOSE b \in keys :
                              key \in {balance_key(b), price_key(b), value_key(b)}
                 IN  IF a \notin open THEN Zero
                     ELSE IF key = balance_key(a) THEN Get(self.positions[a]).quantity
                     ELSE IF key = price_key(a) THEN latest_price(a)
                     ELSE value(a)]

\* mutant: every snapshot is appended, an equal timestamp or not
dict_append(items, key, value) == Append(items, [timestamp |-> key, snapshot |-> value])

\* mutant: the first snapshot of a timestamp is kept
dict_setdefault(items, key, value) ==
    IF \E j \in DOMAIN items : items[j].timestamp = key THEN items
    ELSE Append(items, [timestamp |-> key, snapshot |-> value])

\* self.equity_curve[timestamp] = snapshot: the dict as the sequence of its
\* items in insertion order; an existing key keeps its place
dict_set(items, key, value) ==
    IF \E j \in DOMAIN items : items[j].timestamp = key
    THEN [j \in DOMAIN items |->
            IF items[j].timestamp = key THEN [timestamp |-> key, snapshot |-> value]
            ELSE items[j]]
    ELSE Append(items, [timestamp |-> key, snapshot |-> value])

_update_equity(self, timestamp) ==
    [self EXCEPT !.equity_curve = dict_set(@, timestamp, snapshot_of(self, timestamp))]

\* mutant: only the asset of the final signal is force-closed
_force_close_final_asset_only(self, asset, timestamp, price) ==
    IF IsSome(self.positions[asset]) /\ asset = self.signals[Len(self.signals)].asset
    THEN _close_position(self, [timestamp |-> timestamp, side |-> "CLOSE",
                                price |-> price, asset |-> asset])
    ELSE self

\* mutant: a snapshot is taken after a force-close
_force_close_then_snapshot(self, asset, timestamp, price) ==
    IF IsSome(self.positions[asset])
    THEN _update_equity(_close_position(self, [timestamp |-> timestamp, side |-> "CLOSE",
                                               price |-> price, asset |-> asset]),
                        timestamp)
    ELSE self

_force_close_last_position(self, asset, timestamp, price) ==
    IF IsSome(self.positions[asset])
    THEN _close_position(self, [timestamp |-> timestamp, side |-> "CLOSE",
                                price |-> price, asset |-> asset])
    ELSE self

(********************************* metrics *********************************)
RECURSIVE Sum(_, _)
\* f[1] + ... + f[j]
Sum(f, j) == IF j = 0 THEN Zero ELSE Add(Sum(f, j - 1), f[j])

\* returns.mean() / (returns.std() + 1e-6) is irrational in general: the
\* ratio is kept as the mean and the sample variance (ddof = 1) it is taken
\* from; a one-element series has std NaN, and so a NaN ratio
sharpe_of(returns) ==
    LET n == Len(returns)
        mean == Div(Sum(returns, n), Num(n))
        sq == [j \in 1..n |-> Mul(Sub(returns[j], mean), Sub(returns[j], mean))]
    IN  [mean |-> mean,
         variance |-> IF n = 1 THEN Zero ELSE Div(Sum(sq, n), Num(n - 1)),
         nan |-> n = 1]

\* the 0.0 of the empty report, in the shape of sharpe_of
sharpe_zero == [mean |-> Zero, variance |-> Zero, nan |-> FALSE]

\* mutant: the equity series adds the pnl of the Trades to initial_capital
equity_series_of_pnl(trades, initial_capital) ==
    LET pnls == [j \in DOMAIN trades |-> trades[j].pnl]
    IN  [j \in DOMAIN trades |-> Add(initial_capital, Sum(pnls, j))]

\* pd.Series([t.exit_value ...]).cumsum() + initial_capital - trades[0].exit_value
equity_series(trades, initial_capital) ==
    LET exit_values == [j \in DOMAIN trades |-> trades[j].exit_value]
    IN  [j \in DOMAIN trades |->
            Sub(Add(Sum(exit_values, j), initial_capital), trades[1].exit_value)]

RECURSIVE cummax(_, _)
cummax(series, j) == IF j = 1 THEN series[1] ELSE Max(cummax(series, j - 1), series[j])

RECURSIVE series_min(_, _)
series_min(series, j) == IF j = 1 THEN series[1] ELSE Min(series_min(series, j - 1), series[j])

max_drawdown_pct_of(trades, initial_capital) ==
    LET equity == equity_series(trades, initial_capital)
        drawdown == [j \in DOMAIN trades |->
                        Div(Sub(equity[j], cummax(equity, j)), cummax(equity, j))]
    IN  Mul(series_min(drawdown, Len(trades)), Hundred)

\* the keys compute_kpis copies from the last snapshot into final_balances
is_balance_key(key) ==
    \/ key = "cash_usdc"
    \/ \E a \in Assets : key \in {balance_key(a), value_key(a)}

\* mutant: the empty report names the default mode, not the config's
empty_report_default_mode(config) ==
    [total_return_pct |-> Zero, sharpe_ratio |-> sharpe_zero,
     max_drawdown_pct |-> Zero, hit_ratio |-> Zero, total_trades |-> 0,
     final_balances |-> <<>>, has_final_balances |-> TRUE,
     mode |-> "compound"]

\* the fixed report of compute_kpis for an empty ledger, config given
\* (run() always passes one).  A report is a dict: a record of its keys, with
\* has_final_balances telling whether the key final_balances is set
empty_report(config) ==
    [total_return_pct |-> Zero, sharpe_ratio |-> sharpe_zero,
     max_drawdown_pct |-> Zero, hit_ratio |-> Zero, total_trades |-> 0,
     final_balances |-> <<>>, has_final_balances |-> TRUE,
     mode |-> config.mode]

\* mutant: final_equity is the sum of the exit values, a curve given or not
report_of_exit_values(trades, initial_capital, equity_curve, config) ==
    LET n == Len(trades)
        returns == [j \in 1..n |-> trades[j].return_pct]
        exit_values == [j \in 1..n |-> trades[j].exit_value]
        has_curve == equity_curve # <<>>
        last_snapshot == equity_curve[Len(equity_curve)].snapshot
    IN  [total_return_pct |->
             Mul(Div(Sub(Sum(exit_values, n), initial_capital), initial_capital),
                 Hundred),
         sharpe_ratio |-> sharpe_of(returns),
         max_drawdown_pct |-> max_drawdown_pct_of(trades, initial_capital),
         hit_ratio |-> Rat(Cardinality({j \in 1..n : Less(Zero, trades[j].pnl)}), n),
         total_trades |-> n,
         final_balances |->
             IF has_curve
             THEN [key \in {key2 \in DOMAIN last_snapshot : is_balance_key(key2)} |->
                      last_snapshot[key]]
             ELSE <<>>,
         has_final_balances |-> has_curve,
         mode |-> config.mode]

\* compute_kpis past its guard; equity_curve is the items of the DataFrame's
\* rows, in row order
report_of(trades, initial_capital, equity_curve, config) ==
    LET n == Len(trades)
        returns == [j \in 1..n |-> trades[j].return_pct]
        exit_values == [j \in 1..n |-> trades[j].exit_value]
        hit_ratio == Rat(Cardinality({j \in 1..n : Less(Zero, trades[j].pnl)}), n)
        has_curve == equity_curve # <<>>
        last_snapshot == equity_curve[Len(equity_curve)].snapshot
        final_equity == IF has_curve THEN last_snapshot["equity_usdc"]
                        ELSE Sum(exit_values, n)
        total_return_pct ==
            Mul(Div(Sub(final_equity, initial_capital), initial_capital), Hundred)
        final_balances ==
            [key \in {key2 \in DOMAIN last_snapshot : is_balance_key(key2)} |->
                last_snapshot[key]]
    IN  [total_return_pct |-> total_return_pct,
         sharpe_ratio |-> sharpe_of(returns),
         max_drawdown_pct |-> max_drawdown_pct_of(trades, initial_capital),
         hit_ratio |-> hit_ratio,
         total_trades |-> n,
         final_balances |-> IF has_curve THEN final_balances ELSE <<>>,
         has_final_balances |-> has_curve,
         mode |-> config.mode]

compute_kpis(trades, initial_capital, equity_curve, config) ==
    IF trades = <<>> THEN empty_report(config)
    ELSE report_of(trades, initial_capital, equity_curve, config)

\* the body of `for signal in self.signals`
loop_body_raises(self, signal) ==
    IF signal.side \in {"BUY", "SELL"} THEN _open_position_raises(self, signal)
    ELSE signal.side = "CLOSE" /\ _close_position_raises(self, signal)

\* mutant: every signal, a CLOSE too, is handled as an open
loop_body_opens_every_side(self, signal) ==
    _update_equity(_open_position(self, signal), signal.timestamp)

loop_body(self, signal) ==
    LET handled == IF signal.side \in {"BUY", "SELL"} THEN _open_position(self, signal)
                   ELSE IF signal.side = "CLOSE" THEN _close_position(self, signal)
                   ELSE self
    IN  IF loop_body_raises(self, signal) THEN handled
        ELSE _update_equity(handled, signal.timestamp)

\* run() as a function of the instance, for a run that does not raise: the
\* instance after the first j signals of `for signal in self.signals`
RECURSIVE run_signals(_, _)
run_signals(self, j) ==
    IF j = 0 THEN self
    ELSE LET before == run_signals(self, j - 1)
         IN  loop_body(before, before.signals[j])

\* the instance after the first j items of `for asset, pos in
\* self.positions.items()`
RECURSIVE run_force_close(_, _)
run_force_close(self, j) ==
    IF j = 0 THEN self
    ELSE LET before == run_force_close(self, j - 1)
             last == before.signals[Len(before.signals)]
         IN  _force_close_last_position(before, before.positions_keys[j],
                                        last.timestamp, last.price)

\* the BacktestResult run() returns
run(self) ==
    LET looped == run_signals(self, Len(self.signals))
        closed == run_force_close(looped, Len(looped.positions_keys))
    IN  [trades |-> closed.trades, equity_curve |-> closed.equity_curve,
         kpis |-> compute_kpis(closed.trades, closed.initial_capital,
                               closed.equity_curve, closed.config)]


(***************************** the state machine ***************************)
\* the fields of the BacktestEngine instance; arg_signals is the argument
\* signals of __init__, <<>> once __init__ has returned; pc, i and k are the
\* position of __init__ and run(): i the index of the next signal of its first loop, k the index of
\* the next item of its loop over self.positions.items(); result is what
\* run() returned.  trade_asset and opened are history variables: the asset
\* each Trade of the ledger was made from (a Trade does not record it), and
\* the number of Position objects stored in the table for each asset.
VARIABLES signals, config, initial_capital, trades, equity_curve, positions,
          positions_keys, asset_balances, cash_usdc, pc, i, k, result,
          trade_asset, opened, arg_signals

vars == <<signals, config, initial_capital, trades, equity_curve, positions,
          positions_keys, asset_balances, cash_usdc, pc, i, k, result,
          trade_asset, opened, arg_signals>>

\* the instance as the record the operators above take
this ==
    [signals |-> signals, config |-> config, initial_capital |-> initial_capital,
     trades |-> trades, equity_curve |-> equity_curve, positions |-> positions,
     positions_keys |-> positions_keys, asset_balances |-> asset_balances,
     cash_usdc |-> cash_usdc]

\* the instance is e in the next state; a Trade appended for asset and a
\* Position stored for asset are noted
Becomes(e, asset) ==
    /\ signals' = e.signals
    /\ config' = e.config
    /\ initial_capital' = e.initial_capital
    /\ trades' = e.trades
    /\ equity_curve' = e.equity_curve
    /\ positions' = e.positions
    /\ positions_keys' = e.positions_keys
    /\ asset_balances' = e.asset_balances
    /\ cash_usdc' = e.cash_usdc
    /\ trade_asset' = IF Len(e.trades) > Len(trades)
                      THEN Append(trade_asset, asset) ELSE trade_asset
    /\ opened' = IF IsSome(e.positions[asset]) /\ e.positions[asset] # positions[asset]
                 THEN [opened EXCEPT ![asset] = @ + 1] ELSE opened

\* the signal lists a caller may pass, in any order
Inputs == UNION {[1..n -> Signal] : n \in 0..MaxSignals}

InitWith(inputs, configs) ==
    \E input \in inputs, c \in configs :
        LET e == BacktestEngine(input, c, Num(initial_capital_default))
        IN  /\ signals = e.signals
            /\ config = e.config
            /\ initial_capital = e.initial_capital
            /\ trades = e.trades
            /\ equity_curve = e.equity_curve
            /\ positions = e.positions
            /\ positions_keys = e.positions_keys
            /\ asset_balances = e.asset_balances
            /\ cash_usdc = e.cash_usdc
            /\ pc = "run"
            /\ i = 1
            /\ k = 1
            /\ result = None
            /\ trade_asset = <<>>
            /\ opened = [a \in Assets |-> 0]
            /\ arg_signals = <<>>

Init == InitWith(Inputs, BacktestConfig)

\* one iteration of `for signal in self.signals` on a BUY or SELL signal
OpenSignal ==
    /\ pc = "run"
    /\ i <= Len(signals)
    /\ signals[i].side \in {"BUY", "SELL"}
    /\ Becomes(loop_body(this, signals[i]), signals[i].asset)
    /\ pc' = IF loop_body_raises(this, signals[i]) THEN "raised" ELSE pc
    /\ i' = IF loop_body_raises(this, signals[i]) THEN i ELSE i + 1
    /\ UNCHANGED <<k, result, arg_signals>>

\* one iteration of `for signal in self.signals` on a CLOSE signal
CloseSignal ==
    /\ pc = "run"
    /\ i <= Len(signals)
    /\ signals[i].side = "CLOSE"
    /\ Becomes(loop_body(this, signals[i]), signals[i].asset)
    /\ pc' = IF loop_body_raises(this, signals[i]) THEN "raised" ELSE pc
    /\ i' = IF loop_body_raises(this, signals[i]) THEN i ELSE i + 1
    /\ UNCHANGED <<k, result, arg_signals>>

\* one iteration of `for asset, pos in self.positions.items()`
ForceClose ==
    /\ pc = "run"
    /\ i > Len(signals)
    /\ k <= Len(positions_keys)
    /\ LET asset == positions_keys[k]
           last == signals[Len(signals)]
           forced == [timestamp |-> last.timestamp, side |-> "CLOSE",
                      price |-> last.price, asset |-> asset]
       IN  IF _close_position_raises(this, forced)
           THEN /\ Becomes(this, asset)
                /\ pc' = "raised"
                /\ k' = k
           ELSE /\ Becomes(_force_close_last_position(this, asset, last.timestamp,
                                                      last.price), asset)
                /\ pc' = pc
                /\ k' = k + 1
    /\ UNCHANGED <<i, result, arg_signals>>

\* the end of run(): the KPIs are computed and the result returned
Return ==
    /\ pc = "run"
    /\ i > Len(signals)
    /\ k > Len(positions_keys)
    /\ result' = Some([trades |-> trades, equity_curve |-> equity_curve,
                       kpis |-> compute_kpis(trades, initial_capital,
                                             equity_curve, config)])
    /\ pc' = "done"
    /\ UNCHANGED <<signals, config, initial_capital, trades, equity_curve,
                   positions, positions_keys, asset_balances, cash_usdc, i, k,
                   trade_asset, opened, arg_signals>>

Next == OpenSignal \/ CloseSignal \/ ForceClose \/ Return

Spec == Init /\ [][Next]_vars

\* the construction itself: __init__ is entered with the caller's list, in
\* any order; the attributes it has not assigned yet are shown with the
\* values it is to give them, self.signals as <<>>
InitEntered ==
    \E input \in Inputs, c \in BacktestConfig :
        /\ arg_signals = input
        /\ signals = <<>>
        /\ config = c
        /\ initial_capital = Num(initial_capital_default)
        /\ trades = <<>>
        /\ equity_curve = <<>>
        /\ positions = [a \in Assets |-> None]
        /\ positions_keys = <<>>
        /\ asset_balances = [a \in Assets |-> Zero]
        /\ cash_usdc = Num(initial_capital_default)
        /\ pc = "init"
        /\ i = 1
        /\ k = 1
        /\ result = None
        /\ trade_asset = <<>>
        /\ opened = [a \in Assets |-> 0]

\* self.signals = sorted(signals, key=lambda s: s.timestamp)
SortSignals ==
    /\ pc = "init"
    /\ signals' = sorted(arg_signals)
    /\ pc' = "init_fields"
    /\ UNCHANGED <<config, initial_capital, trades, equity_curve, positions,
                   positions_keys, asset_balances, cash_usdc, i, k, result,
                   trade_asset, opened, arg_signals>>

\* the rest of __init__ and its return; run() is called next
InitFields ==
    /\ pc = "init_fields"
    /\ LET e == BacktestEngine(arg_signals, config, initial_capital)
       IN  /\ signals' = e.signals
           /\ config' = e.config
           /\ initial_capital' = e.initial_capital
           /\ trades' = e.trades
           /\ equity_curve' = e.equity_curve
           /\ positions' = e.positions
           /\ positions_keys' = e.positions_keys
           /\ asset_balances' = e.asset_balances
           /\ cash_usdc' = e.cash_usdc
    /\ arg_signals' = <<>>
    /\ pc' = "run"
    /\ UNCHANGED <<i, k, result, trade_asset, opened>>

\* a run on signals whose price may be 0: Signal.price is any float
SignalAnyPrice ==
    [timestamp : 1..MaxTime, side : Sides, price : {Num(p) : p \in 0..MaxPrice},
     asset : Assets]

InputsAnyPrice == UNION {[1..n -> SignalAnyPrice] : n \in 0..MaxSignalsAnyPrice}

InitAnyPrice == InitWith(InputsAnyPrice, BacktestConfig)

SpecAnyPrice == InitAnyPrice /\ [][Next]_vars

\* a caller computes the KPIs of the ledger run() returned without passing
\* the snapshot series: compute_kpis(trades, initial_capital, config=config)
KpisWithoutCurve ==
    /\ pc = "done"
    /\ result' = Some([trades |-> trades, equity_curve |-> <<>>,
                       kpis |-> compute_kpis(trades, initial_capital, <<>>, config)])
    /\ pc' = "kpis"
    /\ UNCHANGED <<signals, config, initial_capital, trades, equity_curve,
                   positions, positions_keys, asset_balances, cash_usdc, i, k,
                   trade_asset, opened, arg_signals>>

NextWithKpis == Next \/ KpisWithoutCurve

SpecKpis == Init /\ [][NextWithKpis]_vars

NextFromInit == SortSignals \/ InitFields \/ Next

SpecInit == InitEntered /\ [][NextFromInit]_vars

(******************************** the claims *******************************)
Done == pc = "done"
Last == signals[Len(signals)]
LastSnapshot == equity_curve[Len(equity_curve)].snapshot
Opens(a) == {j \in DOMAIN signals : signals[j].asset = a /\ signals[j].side \in {"BUY", "SELL"}}
Closes(a) == {j \in DOMAIN signals : signals[j].asset = a /\ signals[j].side = "CLOSE"}
TradesOf(a) == {j \in DOMAIN trade_asset : trade_asset[j] = a}
ZeroCosts == config.slippage = Zero /\ config.fee = Zero

\* C1: after run() completes on at least one signal, cash plus the market
\* value of the Positions still open equals equity_usdc of the last snapshot.
C1_CashReconcilesWithLastSnapshot ==
    (Done /\ signals # <<>>) =>
        snapshot_of(this, Last.timestamp)["equity_usdc"] = LastSnapshot["equity_usdc"]

\* C2: after run() completes no asset has an open Position.
C2_NoOpenPositionAfterRun ==
    Done => \A a \in Assets : positions[a] = None

\* C2 witness: a run that ended with two Positions force-closed.
C2_Witness ==
    /\ Done
    /\ Len(trades) = 2
    /\ \A a \in Assets : Closes(a) = {} /\ positions[a] = None

\* the Trades the signals of asset a must leave: one for each CLOSE that meets
\* an open Position, and one more if a Position is open after the last signal
RECURSIVE closes_met(_, _, _)
closes_met(a, j, is_open) ==
    IF j > Len(signals) THEN (IF is_open THEN 1 ELSE 0)
    ELSE IF signals[j].asset # a THEN closes_met(a, j + 1, is_open)
    ELSE IF signals[j].side = "CLOSE"
         THEN (IF is_open THEN 1 ELSE 0) + closes_met(a, j + 1, FALSE)
         ELSE closes_met(a, j + 1, TRUE)

\* C3 as stated: after run() completes every asset opened at least once has
\* exactly one more Trade than it received CLOSE signals.
C3_OneMoreTradeThanCloses ==
    Done => \A a \in Assets :
               Opens(a) # {} => Cardinality(TradesOf(a)) = Cardinality(Closes(a)) + 1

\* C3 amended: after run() completes every asset has one Trade for each CLOSE
\* signal that met an open Position of it, and one more exactly when its
\* Position was still open after the last signal.
C3_TradePerMetClosePlusForced ==
    Done => \A a \in Assets : Cardinality(TradesOf(a)) = closes_met(a, 1, FALSE)

\* C3 witness: an asset closed by a CLOSE signal, opened again and force-closed.
C3_Witness ==
    /\ Done
    /\ \E a \in Assets :
          /\ Cardinality(TradesOf(a)) = 2
          /\ Cardinality(Closes(a)) = 1
          /\ Last.side # "CLOSE"

\* the cash an open Position took: quantity = alloc_cash / entry_price
allocated(position) == Mul(position.quantity, position.entry_price)

\* the first j signals open j distinct assets
OpensOfDistinctAssets(j) ==
    /\ j <= Len(signals)
    /\ \A h \in 1..j : signals[h].side \in {"BUY", "SELL"}
    /\ \A g, h \in 1..j : g # h => signals[g].asset # signals[h].asset

\* C4: when the n distinct assets of the run are each opened once, before any
\* close, every one of the n opens is allocated initial_capital / n.
C4_EachOpenGetsEqualShare ==
    LET n == _active_asset_count(this)
    IN  (pc = "run" /\ i = n + 1 /\ OpensOfDistinctAssets(n)) =>
            \A h \in 1..n :
                /\ IsSome(positions[signals[h].asset])
                /\ allocated(Get(positions[signals[h].asset])) = Div(initial_capital, Num(n))

\* C5: the cash allocated to an open does not depend on the order in which
\* the opens of other assets were processed before it: with the first two
\* signals, same-timestamp opens of two assets, given in the other order,
\* each asset is allocated the same cash.
C5_AllocationIndependentOfOrder ==
    (/\ pc = "run"
     /\ i = 3
     /\ OpensOfDistinctAssets(2)
     /\ signals[1].timestamp = signals[2].timestamp) =>
        LET swapped == <<signals[2], signals[1]>> \o SubSeq(signals, 3, Len(signals))
            other == BacktestEngine(swapped, config, initial_capital)
            after == loop_body(loop_body(other, other.signals[1]), other.signals[2])
        IN  /\ other.signals = swapped
            /\ \A a \in {signals[1].asset, signals[2].asset} :
                  allocated(Get(after.positions[a])) = allocated(Get(positions[a]))

\* the loop of run() is at an open signal for an asset that has a Position
AtDuplicateOpen ==
    /\ pc = "run"
    /\ i <= Len(signals)
    /\ signals[i].side \in {"BUY", "SELL"}
    /\ IsSome(positions[signals[i].asset])

\* C6: an open signal for an asset that has an open Position changes none of
\* the position table, the signed balances, cash and the ledger; after two
\* first BUY signals for one asset the only Position is that of the first.
C6_DuplicateOpenIsNoOp ==
    [][/\ AtDuplicateOpen =>
            /\ positions' = positions
            /\ asset_balances' = asset_balances
            /\ cash_usdc' = cash_usdc
            /\ trades' = trades
       /\ (/\ AtDuplicateOpen
           /\ i = 2
           /\ signals[1].side = "BUY"
           /\ signals[2].side = "BUY") =>
            LET first == signals[1]
                entry_price == entry_price_of(this, first)
                alloc_cash == Div(initial_capital, Num(_active_asset_count(this)))
            IN  positions' =
                    [a \in Assets |->
                        IF a = first.asset
                        THEN Some(Position("BUY", entry_price, Div(alloc_cash, entry_price),
                                           first.timestamp))
                        ELSE None]
      ]_vars

\* C6 witness: two BUY signals for one asset at different prices were
\* processed and the Position holds the first one's price.
C6_Witness ==
    /\ pc = "run"
    /\ i = 3
    /\ signals[1].side = "BUY"
    /\ signals[2].side = "BUY"
    /\ signals[1].asset = signals[2].asset
    /\ signals[1].price # signals[2].price
    /\ IsSome(positions[signals[1].asset])
    /\ Get(positions[signals[1].asset]).entry_price = entry_price_of(this, signals[1])

\* the loop of run() is at a CLOSE signal for an asset that has no Position
AtOrphanClose ==
    /\ pc = "run"
    /\ i <= Len(signals)
    /\ signals[i].side = "CLOSE"
    /\ ~IsSome(positions[signals[i].asset])

\* C7: a CLOSE signal for an asset with no open Position changes none of cash,
\* the ledger, the signed balances and the Positions; the run goes on to the
\* next signal, and a snapshot is taken for the signal's timestamp.
C7_OrphanCloseIsNoOp ==
    [][AtOrphanClose =>
            /\ cash_usdc' = cash_usdc
            /\ trades' = trades
            /\ asset_balances' = asset_balances
            /\ positions' = positions
            /\ pc' = "run"
            /\ i' = i + 1
            /\ equity_curve' # <<>>
            /\ equity_curve'[Len(equity_curve')].timestamp = signals[i].timestamp
            /\ equity_curve'[Len(equity_curve')].snapshot["cash_usdc"] = cash_usdc
      ]_vars

\* C7 witness: a first CLOSE signal was passed over, with more signals to come.
C7_Witness ==
    /\ pc = "run"
    /\ i = 2
    /\ Len(signals) > 1
    /\ signals[1].side = "CLOSE"
    /\ Len(equity_curve) = 1
    /\ cash_usdc = initial_capital

\* C8: run() on no signal returns an empty ledger, an empty snapshot series
\* and the zero report with the mode echoed, and leaves cash at
\* initial_capital.
C8_EmptyRun ==
    (Done /\ signals = <<>>) =>
        /\ trades = <<>>
        /\ equity_curve = <<>>
        /\ cash_usdc = initial_capital
        /\ Get(result).trades = <<>>
        /\ Get(result).equity_curve = <<>>
        /\ Get(result).kpis =
              [total_return_pct |-> Zero, sharpe_ratio |-> sharpe_zero,
               max_drawdown_pct |-> Zero, hit_ratio |-> Zero, total_trades |-> 0,
               final_balances |-> <<>>, has_final_balances |-> TRUE,
               mode |-> config.mode]

\* C8 witness: a run on no signal, in fixed mode, has returned.
C8_Witness == Done /\ signals = <<>> /\ IsSome(result) /\ config.mode = "fixed"

\* the run is BUY at p1 then CLOSE at p2, later, of one asset, at no cost
ScenarioB ==
    /\ ZeroCosts
    /\ Len(signals) = 2
    /\ signals[1].side = "BUY"
    /\ signals[2].side = "CLOSE"
    /\ signals[1].asset = signals[2].asset
    /\ signals[1].timestamp < signals[2].timestamp

\* C9: at no cost, BUY at p1 then CLOSE at p2 of one asset with capital C
\* leaves one Trade with quantity C/p1, exit_price p2, pnl (p2-p1)*C/p1 and
\* exit_value C*p2/p1, cash at exit_value, total_return_pct at
\* (exit_value-C)/C*100 and, when p2 > p1, hit_ratio 1.
C9_BuyThenClose ==
    (Done /\ ScenarioB) =>
        LET C == initial_capital
            p1 == signals[1].price
            p2 == signals[2].price
            exit_value == Div(Mul(C, p2), p1)
        IN  /\ Len(trades) = 1
            /\ trades[1].quantity = Div(C, p1)
            /\ trades[1].exit_price = p2
            /\ trades[1].pnl = Div(Mul(Sub(p2, p1), C), p1)
            /\ trades[1].exit_value = exit_value
            /\ cash_usdc = exit_value
            /\ Get(result).kpis.total_return_pct = Mul(Div(Sub(exit_value, C), C), Hundred)
            /\ Less(p1, p2) => Get(result).kpis.hit_ratio = One

\* C9 witness: such a run with p2 > p1 has returned.
C9_Witness ==
    /\ Done
    /\ ScenarioB
    /\ Less(signals[1].price, signals[2].price)
    /\ Get(result).kpis.hit_ratio = One

\* the second loop of run() is at an asset that has a Position
AtForcedClose ==
    /\ pc = "run"
    /\ i > Len(signals)
    /\ k <= Len(positions_keys)
    /\ IsSome(positions[positions_keys[k]])

\* C10: a Position open after the last signal is closed into one Trade, by the
\* logic of an explicit CLOSE, at the timestamp and the price of the final
\* signal, whatever its asset; a lone BUY at no cost leaves a Trade with pnl 0
\* and return_pct 0.
C10_ForceCloseAtFinalSignal ==
    [][AtForcedClose =>
            LET asset == positions_keys[k]
                trade == trades'[Len(trades')]
            IN  /\ Len(trades') = Len(trades) + 1
                /\ SubSeq(trades', 1, Len(trades)) = trades
                /\ trade.exit_time = Last.timestamp
                /\ trade.exit_price = Last.price
                /\ trade = from_position(Get(positions[asset]), Last.price, Last.timestamp)
                /\ cash_usdc' = Add(cash_usdc, trade.exit_value)
                /\ positions' = [positions EXCEPT ![asset] = None]
                /\ asset_balances' = [asset_balances EXCEPT ![asset] = Zero]
                /\ (Len(signals) = 1 /\ Last.side = "BUY" /\ ZeroCosts) =>
                       trade.pnl = Zero /\ trade.return_pct = Zero
      ]_vars

\* C10 witness: with costs, a Position of another asset than the final
\* signal's was force-closed at the final signal's price and timestamp.
C10_Witness ==
    /\ Done
    /\ config.slippage # Zero
    /\ Len(trades) = 2
    /\ \A a \in Assets : Closes(a) = {}
    /\ trade_asset[1] # Last.asset
    /\ trades[1].exit_price = Last.price
    /\ trades[1].exit_time = Last.timestamp
    /\ trades[1].entry_time < Last.timestamp

\* the first loop of run() has processed a signal and no Position has been
\* force-closed yet
AfterSignal == pc = "run" /\ i > 1 /\ k = 1

\* the price of the last signal, in processing order, of asset a at or
\* before timestamp t
PriceAt(a, t) ==
    LET j == CHOOSE j \in DOMAIN signals :
                 /\ signals[j].asset = a
                 /\ signals[j].timestamp <= t
                 /\ \A h \in DOMAIN signals :
                       (h > j /\ signals[h].asset = a) => signals[h].timestamp > t
    IN  signals[j].price

\* quantity times PriceAt of the Position of asset a, 0 when it has none
OpenValueAt(a, t) ==
    IF IsSome(positions[a]) THEN Mul(Get(positions[a]).quantity, PriceAt(a, t)) ELSE Zero

\* C11: after each signal has been processed and its snapshot taken, the last
\* snapshot's equity_usdc is cash plus, over the open Positions, quantity
\* times the price of the latest signal of the asset at or before the
\* signal's timestamp, and the snapshot's cash_usdc is cash.
C11_SnapshotIsCashPlusOpenValue ==
    AfterSignal =>
        LET t == signals[i - 1].timestamp
        IN  /\ equity_curve # <<>>
            /\ equity_curve[Len(equity_curve)].timestamp = t
            /\ LastSnapshot["equity_usdc"] =
                  Add(cash_usdc, Add(OpenValueAt("X", t), OpenValueAt("Y", t)))
            /\ LastSnapshot["cash_usdc"] = cash_usdc

\* C11 witness: three signals in, two Positions are open, one of them at a
\* price that moved since its entry, and some cash is left.
C11_Witness ==
    /\ AfterSignal
    /\ i = 4
    /\ \A a \in Assets : IsSome(positions[a])
    /\ \E a \in Assets :
          PriceAt(a, signals[3].timestamp) # Get(positions[a]).entry_price
    /\ cash_usdc # Zero
    /\ LastSnapshot["equity_usdc"] # initial_capital

\* C12: with initial capital and signal prices positive, the quantity of
\* every open Position and of every Trade of the ledger is strictly positive.
C12_QuantityPositive ==
    /\ \A a \in Assets : IsSome(positions[a]) => Less(Zero, Get(positions[a]).quantity)
    /\ \A j \in DOMAIN trades : Less(Zero, trades[j].quantity)

\* C12 witness: in fixed mode and with costs, in a run of two assets, a short
\* Position was closed into a Trade and a Position was opened after it.
C12_Witness ==
    /\ config.mode = "fixed"
    /\ config.slippage # Zero
    /\ _active_asset_count(this) = 2
    /\ Len(trades) = 1
    /\ trades[1].side = "SELL"
    /\ Less(Zero, trades[1].quantity)
    /\ \E a \in Assets :
          /\ IsSome(positions[a])
          /\ Get(positions[a]).entry_time > trades[1].exit_time
          /\ Less(Zero, Get(positions[a]).quantity)

\* C13: for each asset the number of Positions opened minus the number of
\* Trades made from it is 0 or 1, and is 1 exactly when the position table
\* holds a Position for it.
C13_AtMostOnePositionPerAsset ==
    \A a \in Assets :
        LET open_now == opened[a] - Cardinality(TradesOf(a))
        IN  /\ open_now \in {0, 1}
            /\ open_now = 1 <=> IsSome(positions[a])

\* C13 witness: an asset sold short got a second open signal, which was
\* passed over, and was then closed: one Position opened, one Trade.
C13_Witness ==
    /\ i = 4
    /\ \E a \in Assets :
          /\ \A j \in 1..2 : signals[j].asset = a /\ signals[j].side = "SELL"
          /\ signals[3].asset = a
          /\ signals[3].side = "CLOSE"
          /\ opened[a] = 1
          /\ Cardinality(TradesOf(a)) = 1
          /\ positions[a] = None

\* the move of the price in favour of a Trade: exit - entry of a long one,
\* entry - exit of a short one
FavourableMove(trade) ==
    IF trade.side = "BUY" THEN Sub(trade.exit_price, trade.entry_price)
    ELSE Sub(trade.entry_price, trade.exit_price)

\* C14: the pnl of every Trade of the ledger is positive when a long Position
\* exits above its entry price or a short one below it, negative in the
\* opposite cases, and zero when the two prices are equal.
C14_PnlSign ==
    \A j \in DOMAIN trades :
        /\ trades[j].side \in {"BUY", "SELL"}
        /\ Less(Zero, FavourableMove(trades[j])) => Less(Zero, trades[j].pnl)
        /\ Less(FavourableMove(trades[j]), Zero) => Less(trades[j].pnl, Zero)
        /\ FavourableMove(trades[j]) = Zero => trades[j].pnl = Zero

\* C14 witness: the ledger of a finished run holds a short Trade that exited
\* below its entry with a gain and a long Trade that exited below its entry
\* with a loss.
C14_Witness ==
    /\ Done
    /\ \E g, h \in DOMAIN trades :
          /\ trades[g].side = "SELL"
          /\ Less(trades[g].exit_price, trades[g].entry_price)
          /\ Less(Zero, trades[g].pnl)
          /\ trades[h].side = "BUY"
          /\ Less(trades[h].exit_price, trades[h].entry_price)
          /\ Less(trades[h].pnl, Zero)

\* the timestamps of the signals
Timestamps == {signals[j].timestamp : j \in DOMAIN signals}

\* C15 as stated: the snapshot series run() returns has one entry per
\* processed signal: its length is the number of input signals.
C15_OneSnapshotPerSignal ==
    Done => Len(Get(result).equity_curve) = Len(signals)

\* C15 amended: the snapshot series run() returns has one entry per distinct
\* timestamp of the input signals.
C15_OneSnapshotPerTimestamp ==
    Done => Len(Get(result).equity_curve) = Cardinality(Timestamps)

\* C15 witness: a run of three signals, two of them at one timestamp, has
\* returned a series of two snapshots.
C15_Witness ==
    /\ Done
    /\ Len(signals) = 3
    /\ Cardinality(Timestamps) = 2
    /\ Len(Get(result).equity_curve) = 2

\* C16: the snapshot table holds one entry per distinct timestamp of the
\* signals processed, in strictly increasing timestamp order; processing a
\* signal leaves, at its timestamp, the cash and the balances as they are
\* after that signal and leaves the entries of other timestamps alone, and
\* nothing after the last signal writes to the table: the entry of a
\* timestamp shared by several signals is that of the last of them.
C16_LastWriteWins ==
    [][/\ (pc = "run" /\ i <= Len(signals) /\ pc' = "run") =>
            LET t == signals[i].timestamp
                entry == equity_curve'[Len(equity_curve')]
            IN  /\ {equity_curve'[j].timestamp : j \in DOMAIN equity_curve'}
                      = {signals[j].timestamp : j \in 1..i}
                /\ \A j \in 1..(Len(equity_curve') - 1) :
                      equity_curve'[j].timestamp < equity_curve'[j + 1].timestamp
                /\ entry.timestamp = t
                /\ entry.snapshot["cash_usdc"] = cash_usdc'
                /\ \A a \in SeqToSet(positions_keys') :
                      entry.snapshot[balance_key(a)] =
                          IF IsSome(positions'[a]) THEN Get(positions'[a]).quantity
                          ELSE Zero
                /\ \A j \in DOMAIN equity_curve :
                      equity_curve[j].timestamp # t => equity_curve'[j] = equity_curve[j]
       /\ (pc = "run" /\ i > Len(signals)) => equity_curve' = equity_curve
      ]_vars

\* C16 witness: two opens of two assets at one timestamp were processed; the
\* table holds one entry, with the cash and both balances as they are after
\* the second open.
C16_Witness ==
    /\ pc = "run"
    /\ i = 3
    /\ OpensOfDistinctAssets(2)
    /\ signals[1].timestamp = signals[2].timestamp
    /\ Len(equity_curve) = 1
    /\ equity_curve[1].snapshot["cash_usdc"] = cash_usdc
    /\ \A a \in Assets :
          /\ balance_key(a) \in DOMAIN equity_curve[1].snapshot
          /\ equity_curve[1].snapshot[balance_key(a)] # Zero

\* the signals of seq of timestamp t, in the order of seq
AtTimestamp(seq, t) ==
    LET at_t(s) == s.timestamp = t
    IN  SelectSeq(seq, at_t)

\* the signals of seq of timestamps 1..t: timestamp after timestamp, and in
\* the order of seq within one timestamp
RECURSIVE TimestampAfterTimestamp(_, _)
TimestampAfterTimestamp(seq, t) ==
    IF t = 0 THEN <<>>
    ELSE TimestampAfterTimestamp(seq, t - 1) \o AtTimestamp(seq, t)

\* C17: whatever the order of the list passed, self.signals holds its
\* signals in non-decreasing timestamp order, signals of equal timestamps in
\* their input order; run() handles self.signals[i] for i = 1, 2, ... and
\* never changes the list.
C17_ProcessedInStableTimestampOrder ==
    [][/\ pc = "init" =>
            /\ signals' = TimestampAfterTimestamp(arg_signals, MaxTime)
            /\ \A j \in 1..(Len(signals') - 1) :
                  signals'[j].timestamp <= signals'[j + 1].timestamp
       /\ pc # "init" => signals' = signals
       /\ (pc = "run" /\ i <= Len(signals) /\ pc' = "run") =>
            /\ i' = i + 1
            /\ equity_curve'[Len(equity_curve')].timestamp = signals[i].timestamp
            /\ signals[i].side = "CLOSE" => opened' = opened
            /\ signals[i].side # "CLOSE" => trades' = trades
      ]_vars

\* C17 witness: the list passed had a CLOSE and then a BUY of one asset at
\* one timestamp, followed by a signal of an earlier timestamp; self.signals
\* holds the earlier signal first and the CLOSE before the BUY.
C17_Witness ==
    /\ pc = "init_fields"
    /\ Len(arg_signals) = 3
    /\ arg_signals[1].side = "CLOSE"
    /\ arg_signals[2].side = "BUY"
    /\ arg_signals[1].asset = arg_signals[2].asset
    /\ arg_signals[1].timestamp = arg_signals[2].timestamp
    /\ arg_signals[3].timestamp < arg_signals[1].timestamp
    /\ signals = <<arg_signals[3], arg_signals[1], arg_signals[2]>>

\* the first loop of run() handles a signal without raising
HandlesSignal == pc = "run" /\ i <= Len(signals) /\ pc' = "run"

\* the price of the signal being handled after apply_slippage then apply_fees
\* with the rates of the config and the side of the signal
AdjustedPrice ==
    apply_fees(apply_slippage(signals[i].price, config.slippage, signals[i].side),
               config.fee, signals[i].side)

\* the Position stored or the Trade appended by the step carries AdjustedPrice
AdjustedPriceIsUsed ==
    LET s == signals[i]
    IN  /\ (s.side # "CLOSE" /\ ~IsSome(positions[s.asset])) =>
              Get(positions'[s.asset]).entry_price = AdjustedPrice
        /\ (s.side = "CLOSE" /\ IsSome(positions[s.asset])) =>
              trades'[Len(trades')].exit_price = AdjustedPrice

\* C18 as stated: for a positive price and slippage and fee in [0,1),
\* apply_slippage then apply_fees strictly increases the price on side BUY,
\* strictly decreases it on side SELL and leaves it unchanged on side CLOSE.
C18_CostsStrictlyMoveThePrice ==
    [][HandlesSignal =>
            /\ AdjustedPriceIsUsed
            /\ signals[i].side = "BUY" => Less(signals[i].price, AdjustedPrice)
            /\ signals[i].side = "SELL" => Less(AdjustedPrice, signals[i].price)
            /\ signals[i].side = "CLOSE" => AdjustedPrice = signals[i].price
      ]_vars

\* C18 amended: for a positive price and slippage and fee in [0,1),
\* apply_slippage then apply_fees strictly increases the price on side BUY
\* and strictly decreases it, to a positive price, on side SELL when slippage
\* or fee is positive, and leaves it unchanged when both are 0 and on side
\* CLOSE.
C18_CostsMoveThePriceUnlessZero ==
    [][HandlesSignal =>
            /\ AdjustedPriceIsUsed
            /\ (signals[i].side = "BUY" /\ ~ZeroCosts) =>
                  Less(signals[i].price, AdjustedPrice)
            /\ (signals[i].side = "SELL" /\ ~ZeroCosts) =>
                  Less(AdjustedPrice, signals[i].price) /\ Less(Zero, AdjustedPrice)
            /\ (signals[i].side = "CLOSE" \/ ZeroCosts) =>
                  AdjustedPrice = signals[i].price
      ]_vars

\* C18 witness: with a fee and no slippage, a SELL was accepted at an entry
\* price below the signal's, and a BUY of the other asset at one above.
C18_Witness ==
    /\ pc = "run"
    /\ i = 3
    /\ config.slippage = Zero
    /\ config.fee # Zero
    /\ signals[1].side = "SELL"
    /\ signals[2].side = "BUY"
    /\ signals[1].asset # signals[2].asset
    /\ Less(Get(positions[signals[1].asset]).entry_price, signals[1].price)
    /\ Less(signals[2].price, Get(positions[signals[2].asset]).entry_price)

\* C19: run() has no error path: whatever the signals, a price of 0
\* included, no step of run() raises.
C19_RunNeverRaises == pc # "raised"

\* the loop of run() is at an open signal for an asset that has no Position
AtAcceptedOpen ==
    /\ pc = "run"
    /\ i <= Len(signals)
    /\ signals[i].side \in {"BUY", "SELL"}
    /\ ~IsSome(positions[signals[i].asset])

\* C20: an accepted open allocates alloc = cash / n, n the number of distinct
\* assets of the whole signal sequence, capped in fixed mode at
\* initial_capital / n; it stores a Position of the signal's side and
\* timestamp at the entry price, the signal price times (1 + slippage)(1 + fee)
\* for BUY and (1 - slippage)(1 - fee) for SELL, with quantity alloc / entry
\* price, and debits cash by alloc: quantity times entry price is the cash
\* debited.
C20_AcceptedOpenAllocatesCashOverN ==
    [][AtAcceptedOpen =>
            LET s == signals[i]
                n == Num(Cardinality({signals[j].asset : j \in DOMAIN signals}))
                share == Div(cash_usdc, n)
                cap == Div(initial_capital, n)
                alloc == IF config.mode = "fixed" /\ Less(cap, share) THEN cap ELSE share
                entry == IF s.side = "BUY"
                         THEN Mul(Mul(s.price, Add(One, config.slippage)),
                                  Add(One, config.fee))
                         ELSE Mul(Mul(s.price, Sub(One, config.slippage)),
                                  Sub(One, config.fee))
                stored == Get(positions'[s.asset])
            IN  /\ IsSome(positions'[s.asset])
                /\ stored = [side |-> s.side, entry_price |-> entry,
                             quantity |-> Div(alloc, entry), entry_time |-> s.timestamp]
                /\ cash_usdc' = Sub(cash_usdc, alloc)
                /\ Mul(stored.quantity, stored.entry_price) = Sub(cash_usdc, cash_usdc')
                /\ \A a \in Assets \ {s.asset} : positions'[a] = positions[a]
                /\ trades' = trades
      ]_vars

\* C20 witness: in fixed mode and with costs, after a close at a gain the
\* asset was opened again: the cap applied, the Position took
\* initial_capital and some cash is left.
C20_Witness ==
    /\ pc = "run"
    /\ i = 4
    /\ config.mode = "fixed"
    /\ ~ZeroCosts
    /\ Len(trades) = 1
    /\ Less(Zero, trades[1].pnl)
    /\ IsSome(positions[signals[3].asset])
    /\ allocated(Get(positions[signals[3].asset])) = initial_capital
    /\ Less(Zero, cash_usdc)

\* the raw price of the signal that closes in this step: the signal of the
\* first loop, or the final signal for a force-close
ClosingPrice == IF i <= Len(signals) THEN signals[i].price ELSE Last.price

ConfigVariants ==
    {[config EXCEPT !.allow_short = TRUE],
     [config EXCEPT !.allow_short = TRUE, !.stop_loss_pct = Rat(1, 4),
                    !.take_profit_pct = Rat(1, 4)]}

\* C22: allow_short, stop_loss_pct and take_profit_pct have no effect: a run
\* on the same signals and capital with a config that differs only in these
\* fields returns the same Trades, snapshots and KPIs; a first SELL signal
\* opens a short Position though allow_short is false; and a Trade is made
\* only at a CLOSE signal or by the force-close: before the force-close the
\* ledger holds no more Trades than CLOSE signals were processed.
C22_UnusedConfigFields ==
    /\ Done =>
          \A other \in ConfigVariants :
              LET returned == run(BacktestEngine(signals, other, initial_capital))
              IN  /\ returned.trades = trades
                  /\ returned.equity_curve = equity_curve
                  /\ returned.kpis = Get(result).kpis
    /\ (pc = "run" /\ i = 2 /\ k = 1 /\ signals[1].side = "SELL") =>
          /\ ~config.allow_short
          /\ IsSome(positions[signals[1].asset])
          /\ Get(positions[signals[1].asset]).side = "SELL"
    /\ (pc = "run" /\ k = 1) =>
          Len(trades) <= Cardinality({j \in 1..(i - 1) : signals[j].side = "CLOSE"})

\* C22 witness: a run whose first signal sold short and whose price then
\* halved returned one Trade, made by the force-close at the final signal.
C22_Witness ==
    /\ Done
    /\ ~config.allow_short
    /\ Len(signals) = 3
    /\ signals[1].side = "SELL"
    /\ \A j \in 2..3 : signals[j].asset = signals[1].asset /\ signals[j].side # "CLOSE"
    /\ Less(signals[2].price, signals[1].price)
    /\ signals[1].timestamp < signals[3].timestamp
    /\ Len(trades) = 1
    /\ trades[1].side = "SELL"
    /\ trades[1].exit_time = Last.timestamp

\* C23: the invalid-side error of Trade.from_position is unreachable from
\* run(): every open Position has side BUY or SELL, and so has every Trade.
C23_PositionSideIsBuyOrSell ==
    /\ \A a \in Assets :
          IsSome(positions[a]) =>
              /\ Get(positions[a]).side \in {"BUY", "SELL"}
              /\ ~from_position_raises(Get(positions[a]))
    /\ \A j \in DOMAIN trades : trades[j].side \in {"BUY", "SELL"}
    /\ pc # "raised"

\* C23 witness: CLOSE signals of both assets were processed, one of them
\* after the open of the other asset, and a short Position is open.
C23_Witness ==
    /\ pc = "run"
    /\ i = 4
    /\ signals[1].side = "CLOSE"
    /\ signals[2].side = "SELL"
    /\ signals[3].side = "CLOSE"
    /\ signals[3].asset # signals[2].asset
    /\ IsSome(positions[signals[2].asset])
    /\ Get(positions[signals[2].asset]).side = "SELL"

\* C24: the snapshot taken after a signal records, for every asset of a
\* signal processed so far, the quantity, the price and the market value of
\* its open Position, the price being that of the latest signal of the asset
\* at or before the snapshot's timestamp, or a zero balance and a zero value
\* when the asset is flat.
C24_SnapshotRecordsEveryAssetSeen ==
    AfterSignal =>
        LET t == signals[i - 1].timestamp
            snapshot == LastSnapshot
        IN  \A a \in {signals[j].asset : j \in 1..(i - 1)} :
                /\ {balance_key(a), value_key(a)} \subseteq DOMAIN snapshot
                /\ IF IsSome(positions[a])
                   THEN /\ price_key(a) \in DOMAIN snapshot
                        /\ snapshot[balance_key(a)] = Get(positions[a]).quantity
                        /\ snapshot[price_key(a)] = PriceAt(a, t)
                        /\ snapshot[value_key(a)] =
                              Mul(Get(positions[a]).quantity, PriceAt(a, t))
                   ELSE /\ snapshot[balance_key(a)] = Zero
                        /\ snapshot[value_key(a)] = Zero
                        /\ price_key(a) \notin DOMAIN snapshot

\* C24 witness: the last snapshot holds the quantity, price and value of an
\* open Position whose price moved since its entry, and the zero balance of
\* an asset that only got a CLOSE signal.
C24_Witness ==
    /\ AfterSignal
    /\ i = 4
    /\ \E a, b \in Assets :
          /\ IsSome(positions[a])
          /\ LastSnapshot[price_key(a)] # Get(positions[a]).entry_price
          /\ opened[b] = 0
          /\ balance_key(b) \in DOMAIN LastSnapshot
          /\ LastSnapshot[balance_key(b)] = Zero

\* the sum of the exit_value of the first j Trades of the ledger
RECURSIVE ExitValues(_)
ExitValues(j) == IF j = 0 THEN Zero ELSE Add(ExitValues(j - 1), trades[j].exit_value)

\* C25: for a non-empty ledger total_return_pct is (final_equity -
\* initial_capital) / initial_capital * 100, final_equity being equity_usdc
\* of the last snapshot of the series passed when it is not empty and the sum
\* of the Trades' exit_value otherwise; run() passes the series of the signal
\* pass, which is not empty.
C25_TotalReturnFromFinalEquity ==
    (IsSome(result) /\ trades # <<>>) =>
        LET passed == Get(result).equity_curve
            final_equity == IF passed # <<>>
                            THEN passed[Len(passed)].snapshot["equity_usdc"]
                            ELSE ExitValues(Len(trades))
        IN  /\ Get(result).kpis.total_return_pct =
                  Mul(Div(Sub(final_equity, initial_capital), initial_capital), Hundred)
            /\ Done => passed # <<>> /\ passed = equity_curve

\* C25 witness: the KPIs of a ledger were computed without the series, and
\* the total return from the exit values is not the one from the last
\* snapshot.
C25_Witness ==
    /\ pc = "kpis"
    /\ trades # <<>>
    /\ Get(result).equity_curve = <<>>
    /\ Get(result).kpis.total_return_pct #
          Mul(Div(Sub(LastSnapshot["equity_usdc"], initial_capital), initial_capital),
              Hundred)

\* C26: the signed balance of every asset is the quantity of its open long
\* Position, minus the quantity of its open short Position, and 0 when it
\* has no Position.
C26_BalancesMatchPositions ==
    \A a \in Assets :
        asset_balances[a] =
            IF ~IsSome(positions[a]) THEN Zero
            ELSE IF Get(positions[a]).side = "BUY" THEN Get(positions[a]).quantity
            ELSE Sub(Zero, Get(positions[a]).quantity)

\* C26 witness: one asset is short with a negative balance and the other,
\* bought and closed, is flat with balance 0.
C26_Witness ==
    /\ pc = "run"
    /\ \E a, b \in Assets :
          /\ IsSome(positions[a])
          /\ Get(positions[a]).side = "SELL"
          /\ Less(asset_balances[a], Zero)
          /\ TradesOf(b) # {}
          /\ trades[1].side = "BUY"
          /\ positions[b] = None
          /\ asset_balances[b] = Zero

\* C27: cash never goes negative, in compound and in fixed mode, after any
\* sequence of opens, closes and force-closes.
C27_CashNeverNegative == Leq(Zero, cash_usdc)

\* C27 witness: in fixed mode the only asset was closed at a loss and opened
\* again with all the cash that was left: cash is 0.
C27_Witness ==
    /\ pc = "run"
    /\ i = 4
    /\ config.mode = "fixed"
    /\ Len(trades) = 1
    /\ Less(trades[1].pnl, Zero)
    /\ IsSome(positions[signals[3].asset])
    /\ Less(allocated(Get(positions[signals[3].asset])), initial_capital)
    /\ cash_usdc = Zero

\* the pnl of the first j Trades of the ledger, that of a short Trade negated
RECURSIVE LongMinusShortPnl(_)
LongMinusShortPnl(j) ==
    IF j = 0 THEN Zero
    ELSE IF trades[j].side = "BUY" THEN Add(LongMinusShortPnl(j - 1), trades[j].pnl)
    ELSE Sub(LongMinusShortPnl(j - 1), trades[j].pnl)

\* the pnl of the first j Trades of the ledger
RECURSIVE TotalPnl(_)
TotalPnl(j) == IF j = 0 THEN Zero ELSE Add(TotalPnl(j - 1), trades[j].pnl)

\* C28: after run() completes, final cash minus initial_capital is the sum
\* of the pnl of the long Trades minus the sum of the pnl of the short Trades;
\* for a run with long Trades only, final cash is initial_capital plus the
\* total pnl.
C28_CashChangeIsLongMinusShortPnl ==
    Done =>
        /\ Sub(cash_usdc, initial_capital) = LongMinusShortPnl(Len(trades))
        /\ (\A j \in DOMAIN trades : trades[j].side = "BUY") =>
              cash_usdc = Add(initial_capital, TotalPnl(Len(trades)))

\* C28 witness: with costs, a run ended with a short Trade at a gain and a
\* long Trade at a loss, and with less cash than initial_capital.
C28_Witness ==
    /\ Done
    /\ ~ZeroCosts
    /\ \E g, h \in DOMAIN trades :
          /\ trades[g].side = "SELL"
          /\ Less(Zero, trades[g].pnl)
          /\ trades[h].side = "BUY"
          /\ Less(trades[h].pnl, Zero)
    /\ Less(cash_usdc, initial_capital)

\* C29: an iteration of the force-close loop changes at most cash, the
\* position table, the signed balances and the ledger: the snapshot table is
\* left as it is; the series run() returns is that table, and
\* total_return_pct and final_balances are those of its last snapshot, taken
\* before the force-close.
C29_ForceCloseTakesNoSnapshot ==
    [][/\ (pc = "run" /\ i > Len(signals) /\ k <= Len(positions_keys)) =>
            /\ equity_curve' = equity_curve
            /\ signals' = signals
            /\ config' = config
            /\ initial_capital' = initial_capital
            /\ positions_keys' = positions_keys
       /\ (pc = "run" /\ pc' = "done" /\ trades # <<>>) =>
            LET kpis == Get(result').kpis
            IN  /\ Get(result').equity_curve = equity_curve
                /\ kpis.total_return_pct =
                      Mul(Div(Sub(LastSnapshot["equity_usdc"], initial_capital),
                              initial_capital), Hundred)
                /\ kpis.has_final_balances
                /\ DOMAIN kpis.final_balances =
                      {key \in DOMAIN LastSnapshot : is_balance_key(key)}
                /\ \A key \in DOMAIN kpis.final_balances :
                      kpis.final_balances[key] = LastSnapshot[key]
      ]_vars

\* C29 witness: a run ended by a force-close returned final_balances with the
\* cash and the balance from before the force-close: the asset is flat and
\* cash is higher.
C29_Witness ==
    /\ Done
    /\ Len(trades) = 1
    /\ trades[1].exit_time = Last.timestamp
    /\ Closes(trade_asset[1]) = {}
    /\ positions[trade_asset[1]] = None
    /\ Get(result).kpis.final_balances[balance_key(trade_asset[1])] = trades[1].quantity
    /\ Less(Get(result).kpis.final_balances["cash_usdc"], cash_usdc)
    /\ Len(Get(result).equity_curve) = Cardinality(Timestamps)

\* C30: the equity series compute_kpis rebuilds for the drawdown starts at
\* initial_capital and adds the exit_value of each later Trade; the exit
\* values being non-negative, it never falls below its running maximum and
\* max_drawdown_pct is 0, whatever the pnl of the Trades.
C30_DrawdownIsZero ==
    (Done /\ trades # <<>>) =>
        LET equity == equity_series(trades, initial_capital)
        IN  /\ equity[1] = initial_capital
            /\ \A j \in 2..Len(trades) :
                  /\ equity[j] = Add(equity[j - 1], trades[j].exit_value)
                  /\ Leq(equity[j - 1], equity[j])
            /\ \A j \in DOMAIN trades : Leq(Zero, trades[j].exit_value)
            /\ Get(result).kpis.max_drawdown_pct = Zero

\* C30 witness: a run returned a ledger of a gain followed by a loss, with
\* max_drawdown_pct 0.
C30_Witness ==
    /\ Done
    /\ Len(trades) = 2
    /\ Less(Zero, trades[1].pnl)
    /\ Less(trades[2].pnl, Zero)
    /\ Get(result).kpis.max_drawdown_pct = Zero

====
